---- MODULE Spec2Model ----
(***************************************************************************)
(* State-machine model of the interview-practice front end                 *)
(* (src/src/App.tsx, src/src/geminiService.ts).                            *)
(*                                                                         *)
(* Scheduling: one logical thread.  Every action below is one event-loop   *)
(* task: a user event handler run up to its first await, or the            *)
(* continuation of an async handler after one provider call has settled,   *)
(* run up to its next await.  React state is taken as settled (and the     *)
(* handlers' closures refreshed by the re-render) between two tasks.       *)
(* A provider function whose getAI call throws settles without a request;  *)
(* the continuation of its caller runs before any other task and is part   *)
(* of the same action.                                                     *)
(*                                                                         *)
(* Specifications: Spec (builder and session), FairSpec (builder, every    *)
(* provider call settles), AppSpec (all views and provider calls, sessions *)
(* built by import), KeySpec (credential and settings page).               *)
(***************************************************************************)
EXTENDS Integers, Sequences, FiniteSets, TLC

(* ------------------------------ bounds -------------------------------- *)
MaxFetches == 6     \* items of all the builds started since the page was loaded
MaxTitles == 3      \* non-blank lines the user types in the import box
MaxUserOps == 4     \* user events (clicks, edits) in one behaviour
MaxOdd == 1         \* provider documents that reuse an id or omit a language

(* ------------------------- program constants -------------------------- *)
MockTotal == 5      \* App.tsx:131  const total = 5

Languages == {"java", "cpp", "python", "javascript"}
Views == {"home", "test", "import", "settings", "learning", "expert", "results"}
DefaultLanguage == "java"

Null == <<>>        \* the null session: session is Null or <<s>>
NoError == "null"   \* error === null

(* --------------------------- provider data ---------------------------- *)
\* Identifier the provider puts in the question of request i of build b:
\* the schema only says "string", so a question may carry the identifier
\* of an earlier one, here that of the first question fetched.
FreshId(b, i) == 10 * b + i
CommonId == FreshId(1, 0)
\* starterCode is an OBJECT whose four properties are all optional.
StarterDomains == {Languages, {"java", "python"}}
StarterText == "starter"

\* The documents JSON.parse can hand back for request i of build b.
Responses(b, i) ==
  { [id |-> d, build |-> b, item |-> i, starterCode |-> [l \in dom |-> StarterText]] :
      d \in {FreshId(b, i), CommonId}, dom \in StarterDomains }

\* err.message of a rejected provider call (geminiService.ts:104, 134, 222).
FailureMessages == {"Empty response from AI"}

\* What the user can hand to the editor's onChange ("" is falsy).
NewCodes == {"", "user"}

\* activeTab, App.tsx:62
Tabs == {"description", "hints", "solution"}
NoTranslation == <<>>     \* translatedSolution is NoTranslation or <<t>>
NoResult == <<>>          \* executionResult is NoResult or <<r>>

\* What localStorage and process.env can hold for the provider credential:
\* nothing, the placeholder, or a key.
NoKey == ""
Sentinel == "MY_GEMINI_API_KEY"
RealKey == "key"
KeyValues == {NoKey, Sentinel, RealKey}
\* <<local key, environment key>> at page load
Credentials == {<<NoKey, NoKey>>, <<NoKey, Sentinel>>, <<RealKey, NoKey>>, <<Sentinel, NoKey>>}

\* response.text of a free-text provider call ("" is falsy)
ProviderTexts == {"", "text"}
\* status of a parsed runCodeMock document (geminiService.ts:158)
RunStatuses == {"Accepted"}
\* err.message of a provider request that failed
RequestFailures == {"request failed"}
\* learningTopic / expertQuery at the click, trimmed
Topics == {"", "topic"}

VARIABLES
  view,             \* useState 'home' | 'test' | ...
  session,          \* useState<TestSession | null>
  error,            \* useState<string | null>
  apiKeyMissing,
  showKeyModal,
  loadingImport,
  loadingMockTest,
  builds,           \* the runs of handleStartMockTest / handleImportQuestions
  inflight,         \* provider calls issued and not yet settled: <<build, item>>
  userOps,          \* user events so far
  odd,              \* provider answers so far that reuse an id, omit a language
                    \* or carry no text
  localKey,         \* localStorage CUSTOM_GEMINI_API_KEY
  envKey,           \* process.env.GEMINI_API_KEY
  aiInstance,       \* geminiService.ts:4, TRUE once the client has been built
  activeTab,
  translatedSolution,
  translating,
  executionResult,
  running,
  loadingLearning,
  loadingExpert,
  learningContent,
  expertResponse,
  calls             \* run, translate, learning and expert requests issued
                    \* and not yet settled

vars == <<view, session, error, apiKeyMissing, showKeyModal,
          loadingImport, loadingMockTest, builds, inflight, userOps, odd,
          localKey, envKey, aiInstance, activeTab, translatedSolution,
          translating, executionResult, running, loadingLearning,
          loadingExpert, learningContent, expertResponse, calls>>

\* the credential and the provider client
credVars == <<localKey, envKey, aiInstance>>
\* the state of the learning and expert views
tutorVars == <<loadingLearning, loadingExpert, learningContent, expertResponse>>
\* the state of the panels of the test view
panelVars == <<activeTab, translatedSolution, translating, executionResult, running>>

(* ------------------------------ helpers ------------------------------- *)
HasSession == session # Null
S == session[1]

Last(s) == s[Len(s)]

RECURSIVE SeqRange(_)
SeqRange(s) == IF s = <<>> THEN {} ELSE {s[1]} \cup SeqRange(Tail(s))

IsPrefix(s, t) == Len(s) <= Len(t) /\ SubSeq(t, 1, Len(s)) = s

\* err.message || fallback
MessageOr(m, fallback) == IF m = "" THEN fallback ELSE m

(* --------------------------- Session Store ---------------------------- *)
\* App.tsx:135-143 / 190-198
createSession(b, firstQuestion) ==
  [ id |-> b,
    questions |-> <<firstQuestion>>,
    currentQuestionIndex |-> 0,
    userCodes |-> [k \in {firstQuestion.id} |-> firstQuestion.starterCode],
    language |-> DefaultLanguage ]

\* the object spread { ...prev.userCodes, [q.id]: { ...q.starterCode } }
seedCodes(userCodes, q) ==
  [k \in (DOMAIN userCodes) \cup {q.id} |->
     IF k = q.id THEN q.starterCode ELSE userCodes[k]]

\* faulty variant: the new question is put in front of the list
prependToList(questions, q) == <<q>> \o questions

\* [...prev.questions, q]
appendToList(questions, q) == Append(questions, q)

\* faulty variant: the updater takes the other branch of its conditional
appendQuestionDroppingSession(prev, q) == Null

\* the updater of App.tsx:153-163 / 208-218, applied to the current state
appendQuestion(prev, q) ==
  IF prev = Null THEN Null
  ELSE << [prev[1] EXCEPT !.questions = appendToList(prev[1].questions, q),
                          !.userCodes = seedCodes(prev[1].userCodes, q)] >>

(* ------------------------- Incremental builder ------------------------ *)
\* faulty variant: the fill requests are all issued at once after item 0
RequestsAllAtOnce(i, total) == IF i = 0 THEN 1..(total - 1) ELSE {}

\* The for loop of App.tsx:150 / 205: after item i has settled, the
\* requests the build issues next.
RequestsAfter(i, total) == IF i + 1 < total THEN {i + 1} ELSE {}

\* faulty variant: a failed item ends the loop
RequestsNoneAfterFailure(i, total) == {}

\* faulty variant: a failed item is requested again
RequestsRetry(i, total) == {i}

\* A failed item i >= 1 is caught inside the loop body (App.tsx:164-166).
RequestsAfterFailure(i, total) == RequestsAfter(i, total)

IssueAll(b, items) == {<<b, i>> : i \in items}

RECURSIVE SetToSeq(_)
\* ascending enumeration of a set of indices
SetToSeq(s) ==
  IF s = {} THEN <<>>
  ELSE LET m == CHOOSE x \in s : \A y \in s : x <= y
       IN <<m>> \o SetToSeq(s \ {m})

StartBuild(kind, total) ==
  [ kind |-> kind, total |-> total, pc |-> "first",
    requested |-> <<0>>, results |-> <<>> ]

Settle(b, i, outcome, next, pc) ==
  [builds EXCEPT ![b].results = Append(@, <<i, outcome>>),
                 ![b].requested = @ \o SetToSeq(next),
                 ![b].pc = pc]

PcAfter(b, i, next) ==
  IF next = {} /\ (inflight \ {<<b, i>>}) \cap {<<b, j>> : j \in 0..builds[b].total} = {}
  THEN "done" ELSE "fill"

UserEvent == /\ userOps < MaxUserOps
             /\ userOps' = userOps + 1

(* ----------------------------- credential ----------------------------- *)
\* the test of App.tsx:85
checkApiKey(local, env) == (env = NoKey \/ env = Sentinel) /\ local = NoKey

\* geminiService.ts:10  customKey || process.env.GEMINI_API_KEY
ApiKey == IF localKey # NoKey THEN localKey ELSE envKey

\* geminiService.ts:6-18: getAI throws API_KEY_MISSING unless a client is
\* cached or a key other than the placeholder is found; a call that does not
\* throw leaves the client cached
getAIThrows == ~aiInstance /\ (ApiKey = NoKey \/ ApiKey = Sentinel)

(* ------------------------------- Init --------------------------------- *)
\* the page after its first render and the mount effect (App.tsx:77-79)
Init ==
  /\ view = "home"
  /\ session = Null
  /\ error = NoError
  /\ \E c \in Credentials : localKey = c[1] /\ envKey = c[2]
  /\ apiKeyMissing = checkApiKey(localKey, envKey)
  /\ aiInstance = FALSE
  /\ showKeyModal = FALSE
  /\ loadingImport = FALSE
  /\ loadingMockTest = FALSE
  /\ activeTab = "description"
  /\ translatedSolution = NoTranslation
  /\ translating = FALSE
  /\ executionResult = NoResult
  /\ running = FALSE
  /\ loadingLearning = FALSE
  /\ loadingExpert = FALSE
  /\ learningContent = ""
  /\ expertResponse = ""
  /\ builds = <<>>
  /\ inflight = {}
  /\ calls = {}
  /\ userOps = 0
  /\ odd = 0

(* --------------------------- build handlers --------------------------- *)
Planned == LET RECURSIVE Sum(_)
               Sum(k) == IF k = 0 THEN 0 ELSE builds[k].total + Sum(k - 1)
           IN Sum(Len(builds))

\* a build of `total` items still fits the model
Fits(total) == Planned + total <= MaxFetches

\* the answer repeats an identifier or omits a language
IsOdd(q) == q.id # FreshId(q.build, q.item) \/ DOMAIN q.starterCode # Languages

\* the provider's answer q is one the model still admits
Admit(q) ==
  /\ IsOdd(q) => odd < MaxOdd
  /\ odd' = IF IsOdd(q) THEN odd + 1 ELSE odd

\* the provider's text t is one the model still admits
AdmitText(t) ==
  /\ (t = "") => odd < MaxOdd
  /\ odd' = IF t = "" THEN odd + 1 ELSE odd

\* App.tsx:123-133, up to the first await; when getAI throws, the catch and
\* finally blocks (App.tsx:168-172) run before any other task
handleStartMockTest ==
  /\ view = "home"
  /\ UserEvent
  /\ IF apiKeyMissing
     THEN /\ showKeyModal' = TRUE
          /\ UNCHANGED <<view, session, error, apiKeyMissing, aiInstance,
                         loadingImport, loadingMockTest, builds, inflight, odd>>
     ELSE IF getAIThrows
     THEN /\ error' = MessageOr("API_KEY_MISSING", "Failed to generate test. Please try again.")
          /\ loadingMockTest' = FALSE
          /\ UNCHANGED <<view, session, apiKeyMissing, showKeyModal, aiInstance,
                         loadingImport, builds, inflight, odd>>
     ELSE /\ Fits(MockTotal)
          /\ loadingMockTest' = TRUE
          /\ error' = NoError
          /\ aiInstance' = TRUE
          /\ builds' = Append(builds, StartBuild("mock", MockTotal))
          /\ inflight' = inflight \cup {<<Len(builds) + 1, 0>>}
          /\ UNCHANGED <<view, session, apiKeyMissing, showKeyModal,
                         loadingImport, odd>>
  /\ UNCHANGED <<localKey, envKey, tutorVars, panelVars, calls>>

\* App.tsx:175-188, up to the first await, with n non-blank lines in the
\* import box; the button is disabled while the box is blank or
\* loadingImport is set (App.tsx:883)
handleImportQuestions(n) ==
  /\ view = "import"
  /\ ~loadingImport
  /\ UserEvent
  /\ IF apiKeyMissing
     THEN /\ showKeyModal' = TRUE
          /\ UNCHANGED <<view, session, error, apiKeyMissing, aiInstance,
                         loadingImport, loadingMockTest, builds, inflight, odd>>
     ELSE IF getAIThrows
     THEN /\ error' = MessageOr("API_KEY_MISSING", "Failed to import questions. Please try again.")
          /\ loadingImport' = FALSE
          /\ UNCHANGED <<view, session, apiKeyMissing, showKeyModal, aiInstance,
                         loadingMockTest, builds, inflight, odd>>
     ELSE /\ Fits(n)
          /\ loadingImport' = TRUE
          /\ error' = NoError
          /\ aiInstance' = TRUE
          /\ builds' = Append(builds, StartBuild("import", n))
          /\ inflight' = inflight \cup {<<Len(builds) + 1, 0>>}
          /\ UNCHANGED <<view, session, apiKeyMissing, showKeyModal,
                         loadingMockTest, odd>>
  /\ UNCHANGED <<localKey, envKey, tutorVars, panelVars, calls>>

ClearLoading(kind) ==
  /\ loadingMockTest' = IF kind = "mock" THEN FALSE ELSE loadingMockTest
  /\ loadingImport' = IF kind = "import" THEN FALSE ELSE loadingImport

(* ---------------------------- translation ----------------------------- *)
CurrentQuestion(s) == s.questions[s.currentQuestionIndex + 1]
\* the request a question belongs to
QKey(q) == <<q.build, q.item>>

\* the dependency list of the effect of App.tsx:253-257
EffectDeps(tab, v, sess) ==
  <<tab, v, IF sess = Null THEN -1 ELSE sess[1].currentQuestionIndex>>

\* the condition of App.tsx:254
TranslateWanted(tab, v, sess, translated) ==
  v = "test" /\ tab = "solution" /\ translated = NoTranslation /\ sess # Null

\* App.tsx:239-251 up to the await, for the current question q of the
\* handler's session; translateSolution (geminiService.ts:232-252) returns
\* its failure text when getAI throws, and the rest of the handler then runs
\* before any other task
handleTranslateSolution(q, lang, id) ==
  IF getAIThrows
  THEN /\ translatedSolution' = <<[text |-> "Failed to translate solution.",
                                   question |-> QKey(q), lang |-> lang]>>
       /\ translating' = FALSE
       /\ UNCHANGED <<calls, aiInstance>>
  ELSE /\ translating' = TRUE
       /\ translatedSolution' = NoTranslation
       /\ aiInstance' = TRUE
       /\ calls' = calls \cup {[op |-> "translate", id |-> id,
                                question |-> QKey(q), lang |-> lang]}

\* App.tsx:133-152 / 188-207: item 0 resolved; the view and the index of the
\* effect's dependency list may change with it
FirstResolved(b) ==
  /\ <<b, 0>> \in inflight
  /\ builds[b].pc = "first"
  /\ \E q \in Responses(b, 0) :
       LET next == RequestsAfter(0, builds[b].total) IN
       /\ Admit(q)
       /\ session' = <<createSession(b, q)>>
       /\ view' = "test"
       /\ ClearLoading(builds[b].kind)
       /\ inflight' = (inflight \ {<<b, 0>>}) \cup IssueAll(b, next)
       /\ builds' = Settle(b, 0, "ok", next, PcAfter(b, 0, next))
       /\ IF /\ EffectDeps(activeTab, view, session) # EffectDeps(activeTab, "test", session')
             /\ TranslateWanted(activeTab, "test", session', translatedSolution)
          THEN handleTranslateSolution(q, DefaultLanguage, userOps)
          ELSE UNCHANGED <<translatedSolution, translating, calls, aiInstance>>
  /\ UNCHANGED <<error, apiKeyMissing, showKeyModal, userOps, localKey, envKey,
                 tutorVars, activeTab, executionResult, running>>

\* faulty variant: the rejection of item 0 is swallowed and the fill loop runs
FirstRejectedFillsAnyway(b) ==
  /\ <<b, 0>> \in inflight
  /\ builds[b].pc = "first"
  /\ error' = "Empty response from AI"
  /\ ClearLoading(builds[b].kind)
  /\ LET next == RequestsAfter(0, builds[b].total) IN
       /\ inflight' = (inflight \ {<<b, 0>>}) \cup IssueAll(b, next)
       /\ builds' = Settle(b, 0, "fail", next, PcAfter(b, 0, next))
  /\ UNCHANGED <<view, session, apiKeyMissing, showKeyModal, userOps, odd,
                 credVars, tutorVars, panelVars, calls>>

\* faulty variant: the rejection of item 0 opens the test view
FirstRejectedOpensTest(b) ==
  /\ <<b, 0>> \in inflight
  /\ builds[b].pc = "first"
  /\ error' = "Empty response from AI"
  /\ view' = "test"
  /\ ClearLoading(builds[b].kind)
  /\ inflight' = inflight \ {<<b, 0>>}
  /\ builds' = Settle(b, 0, "fail", {}, "failed")
  /\ UNCHANGED <<session, apiKeyMissing, showKeyModal, userOps, odd,
                 credVars, tutorVars, panelVars, calls>>

\* App.tsx:168-172 / 223-227: item 0 rejected
FirstRejected(b) ==
  /\ <<b, 0>> \in inflight
  /\ builds[b].pc = "first"
  /\ \E m \in FailureMessages :
       error' = MessageOr(m, IF builds[b].kind = "mock"
                             THEN "Failed to generate test. Please try again."
                             ELSE "Failed to import questions. Please try again.")
  /\ ClearLoading(builds[b].kind)
  /\ inflight' = inflight \ {<<b, 0>>}
  /\ builds' = Settle(b, 0, "fail", {}, "failed")
  /\ UNCHANGED <<view, session, apiKeyMissing, showKeyModal, userOps, odd,
                 credVars, tutorVars, panelVars, calls>>

\* App.tsx:152-163 / 207-218: item i >= 1 resolved; the next request goes
\* through the client that getAI cached for item 0
FillResolved(b, i) ==
  /\ <<b, i>> \in inflight
  /\ i >= 1
  /\ \E q \in Responses(b, i) :
       LET next == RequestsAfter(i, builds[b].total) IN
       /\ Admit(q)
       /\ session' = appendQuestion(session, q)
       /\ inflight' = (inflight \ {<<b, i>>}) \cup IssueAll(b, next)
       /\ builds' = Settle(b, i, "ok", next, PcAfter(b, i, next))
  /\ UNCHANGED <<view, error, apiKeyMissing, showKeyModal,
                 loadingImport, loadingMockTest, userOps,
                 credVars, tutorVars, panelVars, calls>>

\* App.tsx:164-166 / 219-221: item i >= 1 rejected
FillRejected(b, i) ==
  /\ <<b, i>> \in inflight
  /\ i >= 1
  /\ LET next == RequestsAfterFailure(i, builds[b].total) IN
       /\ inflight' = (inflight \ {<<b, i>>}) \cup IssueAll(b, next)
       /\ builds' = Settle(b, i, "fail", next, PcAfter(b, i, next))
  /\ UNCHANGED <<view, session, error, apiKeyMissing, showKeyModal,
                 loadingImport, loadingMockTest, userOps, odd,
                 credVars, tutorVars, panelVars, calls>>

(* ----------------------------- user events ---------------------------- *)
\* faulty variant: the buffers of the chosen language are seeded again
setLanguageSeedingBuffers(s, lang) ==
  [s EXCEPT !.language = lang,
            !.userCodes = [k \in DOMAIN s.userCodes |->
                             [l \in DOMAIN s.userCodes[k] |->
                                IF l = lang THEN StarterText ELSE s.userCodes[k][l]]]]

\* the session-only part of changeLanguage, App.tsx:232
setLanguage(s, lang) == [s EXCEPT !.language = lang]

\* faulty variant: the translation is requested whatever tab is active
changeLanguageAlwaysTranslating(lang) ==
  /\ view = "test"
  /\ HasSession
  /\ UserEvent
  /\ session' = <<setLanguage(S, lang)>>
  /\ handleTranslateSolution(CurrentQuestion(S), lang, userOps + 1)
  /\ UNCHANGED <<view, error, apiKeyMissing, showKeyModal,
                 loadingImport, loadingMockTest, builds, inflight, odd,
                 localKey, envKey, tutorVars, activeTab, executionResult, running>>

\* App.tsx:230-237 (the select is part of renderCoding, App.tsx:1067-1075)
changeLanguage(lang) ==
  /\ view = "test"
  /\ HasSession
  /\ UserEvent
  /\ session' = <<setLanguage(S, lang)>>
  /\ IF activeTab = "solution"
     THEN handleTranslateSolution(CurrentQuestion(S), lang, userOps + 1)
     ELSE /\ translatedSolution' = NoTranslation
          /\ UNCHANGED <<translating, calls, aiInstance>>
  /\ UNCHANGED <<view, error, apiKeyMissing, showKeyModal,
                 loadingImport, loadingMockTest, builds, inflight, odd,
                 localKey, envKey, tutorVars, activeTab, executionResult, running>>

\* faulty variant: the write goes to a snapshot taken before the latest append
withCodeOnSnapshot(s, newCode) ==
  IF Len(s.questions) > s.currentQuestionIndex + 1
  THEN [s EXCEPT !.questions = SubSeq(@, 1, Len(@) - 1)]
  ELSE s

\* faulty variant: a write equal to the buffer's content resets the buffer
withCodeToggling(s, newCode) ==
  LET qId == s.questions[s.currentQuestionIndex + 1].id
      old == s.userCodes[qId]
  IN [s EXCEPT !.userCodes[qId] =
        [l \in (DOMAIN old) \cup {s.language} |->
           IF l # s.language THEN old[l]
           ELSE IF l \in DOMAIN old /\ old[l] = newCode THEN StarterText
           ELSE newCode]]

\* the object written by App.tsx:284-293
withCode(s, newCode) ==
  LET qId == s.questions[s.currentQuestionIndex + 1].id
      old == s.userCodes[qId]
  IN [s EXCEPT !.userCodes[qId] =
        [l \in (DOMAIN old) \cup {s.language} |->
           IF l = s.language THEN newCode ELSE old[l]]]

\* App.tsx:281-294 (the editor is part of renderCoding, App.tsx:1236-1243)
updateCode(newCode) ==
  /\ view = "test"
  /\ HasSession
  /\ UserEvent
  /\ session' = IF newCode = "" THEN session ELSE <<withCode(S, newCode)>>
  /\ UNCHANGED <<view, error, apiKeyMissing, showKeyModal,
                 loadingImport, loadingMockTest, builds, inflight, odd,
                 credVars, tutorVars, panelVars, calls>>

\* faulty variant: no upper boundary check
neverAtLast(s) == FALSE

\* faulty variant: no lower boundary check
neverAtFirst(s) == FALSE

\* the guard of App.tsx:298
atLast(s) == s.currentQuestionIndex >= Len(s.questions) - 1
\* the guard of App.tsx:305
atFirst(s) == s.currentQuestionIndex <= 0

\* App.tsx:297-302
nextQuestion ==
  /\ view = "test"
  /\ HasSession
  /\ UserEvent
  /\ IF atLast(S)
     THEN UNCHANGED <<session, executionResult, activeTab>>
     ELSE /\ session' = <<[S EXCEPT !.currentQuestionIndex = @ + 1]>>
          /\ executionResult' = NoResult
          /\ activeTab' = "description"
  /\ UNCHANGED <<view, error, apiKeyMissing, showKeyModal,
                 loadingImport, loadingMockTest, builds, inflight, odd,
                 credVars, tutorVars, translatedSolution, translating, running, calls>>

\* App.tsx:304-309
prevQuestion ==
  /\ view = "test"
  /\ HasSession
  /\ UserEvent
  /\ IF atFirst(S)
     THEN UNCHANGED <<session, executionResult, activeTab>>
     ELSE /\ session' = <<[S EXCEPT !.currentQuestionIndex = @ - 1]>>
          /\ executionResult' = NoResult
          /\ activeTab' = "description"
  /\ UNCHANGED <<view, error, apiKeyMissing, showKeyModal,
                 loadingImport, loadingMockTest, builds, inflight, odd,
                 credVars, tutorVars, translatedSolution, translating, running, calls>>

\* what the "back to home" buttons do to the session: they call
\* setView('home') and nothing else (App.tsx:870, 895, 930, 986, 1056, 1318)
sessionAfterHome(s) == s

\* the back buttons of renderImport, renderLearning, renderExpert,
\* renderResults, renderCoding and renderSettings
goHome ==
  /\ view \in {"import", "learning", "expert", "results", "test", "settings"}
  /\ UserEvent
  /\ view' = "home"
  /\ session' = sessionAfterHome(session)
  /\ UNCHANGED <<error, apiKeyMissing, showKeyModal,
                 loadingImport, loadingMockTest, builds, inflight, odd,
                 credVars, tutorVars, panelVars, calls>>

\* App.tsx:610  setView('import')
goImport ==
  /\ view = "home"
  /\ UserEvent
  /\ view' = "import"
  /\ UNCHANGED <<session, error, apiKeyMissing, showKeyModal,
                 loadingImport, loadingMockTest, builds, inflight, odd,
                 credVars, tutorVars, panelVars, calls>>

\* App.tsx:399, 434  setView('settings')
goSettings ==
  /\ view = "home"
  /\ UserEvent
  /\ view' = "settings"
  /\ UNCHANGED <<session, error, apiKeyMissing, showKeyModal,
                 loadingImport, loadingMockTest, builds, inflight, odd,
                 credVars, tutorVars, panelVars, calls>>

\* App.tsx:1085  setView('results'); renderCoding renders nothing without a session
endInterview ==
  /\ view = "test"
  /\ HasSession
  /\ UserEvent
  /\ view' = "results"
  /\ UNCHANGED <<session, error, apiKeyMissing, showKeyModal,
                 loadingImport, loadingMockTest, builds, inflight, odd,
                 credVars, tutorVars, panelVars, calls>>

\* App.tsx:1487  setError(null); the banner exists only while error is set
dismissError ==
  /\ error # NoError
  /\ UserEvent
  /\ error' = NoError
  /\ UNCHANGED <<view, session, apiKeyMissing, showKeyModal,
                 loadingImport, loadingMockTest, builds, inflight, odd,
                 credVars, tutorVars, panelVars, calls>>

\* App.tsx:1439, 1461  setShowKeyModal(false)
closeKeyModal ==
  /\ showKeyModal
  /\ UserEvent
  /\ showKeyModal' = FALSE
  /\ UNCHANGED <<view, session, error, apiKeyMissing,
                 loadingImport, loadingMockTest, builds, inflight, odd,
                 credVars, tutorVars, panelVars, calls>>

(* --------------------------- test-view panels ------------------------- *)
\* App.tsx:1130  setActiveTab(tab), followed by the effect of App.tsx:253-257
setActiveTab(tab) ==
  /\ view = "test"
  /\ HasSession
  /\ UserEvent
  /\ activeTab' = tab
  /\ IF /\ EffectDeps(activeTab, view, session) # EffectDeps(tab, view, session)
        /\ TranslateWanted(tab, view, session, translatedSolution)
     THEN handleTranslateSolution(CurrentQuestion(S), S.language, userOps + 1)
     ELSE UNCHANGED <<translatedSolution, translating, calls, aiInstance>>
  /\ UNCHANGED <<view, session, error, apiKeyMissing, showKeyModal,
                 loadingImport, loadingMockTest, builds, inflight, odd,
                 localKey, envKey, tutorVars, executionResult, running>>

\* App.tsx:247  response.text || "Translation failed."
TranslationOr(t) == IF t = "" THEN "Translation failed." ELSE t

\* App.tsx:244-249 after the provider answered the request c
TranslateResolved(c) ==
  /\ c \in calls
  /\ c.op = "translate"
  /\ \E t \in ProviderTexts :
       /\ AdmitText(t)
       /\ translatedSolution' = <<[text |-> TranslationOr(t),
                                   question |-> c.question, lang |-> c.lang]>>
  /\ translating' = FALSE
  /\ calls' = calls \ {c}
  /\ UNCHANGED <<view, session, error, apiKeyMissing, showKeyModal,
                 loadingImport, loadingMockTest, builds, inflight, userOps,
                 credVars, tutorVars, activeTab, executionResult, running>>

\* App.tsx:244-249 after the request c failed: translateSolution returns its
\* failure text (geminiService.ts:248-251)
TranslateFailed(c) ==
  /\ c \in calls
  /\ c.op = "translate"
  /\ translatedSolution' = <<[text |-> "Failed to translate solution.",
                              question |-> c.question, lang |-> c.lang]>>
  /\ translating' = FALSE
  /\ calls' = calls \ {c}
  /\ UNCHANGED <<view, session, error, apiKeyMissing, showKeyModal,
                 loadingImport, loadingMockTest, builds, inflight, userOps, odd,
                 credVars, tutorVars, activeTab, executionResult, running>>

\* App.tsx:274  the result of a failed run
ErrorResult(question) ==
  <<[status |-> "Error", message |-> "Failed to execute code.", question |-> question]>>

\* App.tsx:259-269, up to the await; the button is disabled while running
\* is set (App.tsx:1079)
handleRunCode ==
  /\ view = "test"
  /\ HasSession
  /\ ~running
  /\ UserEvent
  /\ IF apiKeyMissing
     THEN /\ showKeyModal' = TRUE
          /\ UNCHANGED <<running, executionResult, calls, aiInstance>>
     ELSE IF getAIThrows
     THEN /\ executionResult' = ErrorResult(QKey(CurrentQuestion(S)))
          /\ running' = FALSE
          /\ UNCHANGED <<showKeyModal, calls, aiInstance>>
     ELSE /\ running' = TRUE
          /\ executionResult' = NoResult
          /\ aiInstance' = TRUE
          /\ calls' = calls \cup {[op |-> "run", id |-> userOps + 1,
                                   question |-> QKey(CurrentQuestion(S)),
                                   lang |-> S.language]}
          /\ UNCHANGED showKeyModal
  /\ UNCHANGED <<view, session, error, apiKeyMissing,
                 loadingImport, loadingMockTest, builds, inflight, odd,
                 localKey, envKey, tutorVars, activeTab, translatedSolution, translating>>

\* App.tsx:270-271, 275-277: the run request c resolved
RunResolved(c) ==
  /\ c \in calls
  /\ c.op = "run"
  /\ \E st \in RunStatuses :
       executionResult' = <<[status |-> st, message |-> "", question |-> c.question]>>
  /\ running' = FALSE
  /\ calls' = calls \ {c}
  /\ UNCHANGED <<view, session, error, apiKeyMissing, showKeyModal,
                 loadingImport, loadingMockTest, builds, inflight, userOps, odd,
                 credVars, tutorVars, activeTab, translatedSolution, translating>>

\* faulty variant: a failed run is reported through the global error message
RunRejectedSetsError(c) ==
  /\ c \in calls
  /\ c.op = "run"
  /\ error' = "Failed to execute code."
  /\ running' = FALSE
  /\ calls' = calls \ {c}
  /\ UNCHANGED <<view, session, apiKeyMissing, showKeyModal, executionResult,
                 loadingImport, loadingMockTest, builds, inflight, userOps, odd,
                 credVars, tutorVars, activeTab, translatedSolution, translating>>

\* faulty variant: a failed run leaves the running flag set
RunRejectedStillRunning(c) ==
  /\ c \in calls
  /\ c.op = "run"
  /\ executionResult' = ErrorResult(c.question)
  /\ calls' = calls \ {c}
  /\ UNCHANGED <<view, session, error, apiKeyMissing, showKeyModal, running,
                 loadingImport, loadingMockTest, builds, inflight, userOps, odd,
                 credVars, tutorVars, activeTab, translatedSolution, translating>>

\* App.tsx:272-277: the run request c rejected
RunRejected(c) ==
  /\ c \in calls
  /\ c.op = "run"
  /\ executionResult' = ErrorResult(c.question)
  /\ running' = FALSE
  /\ calls' = calls \ {c}
  /\ UNCHANGED <<view, session, error, apiKeyMissing, showKeyModal,
                 loadingImport, loadingMockTest, builds, inflight, userOps, odd,
                 credVars, tutorVars, activeTab, translatedSolution, translating>>

(* ------------------------ learning and expert ------------------------- *)
TutorCall(op, id) == [op |-> op, id |-> id, question |-> <<0, 0>>, lang |-> ""]

\* faulty variant: the view is switched only after the content has arrived
viewAtLearningStartHome == "home"

\* App.tsx:319  setView('learning')
viewAtLearningStart == "learning"

\* App.tsx:311-319, up to the await, with the trimmed learningTopic
handleStartLearning(topic) ==
  /\ view = "home"
  /\ UserEvent
  /\ IF apiKeyMissing
     THEN /\ showKeyModal' = TRUE
          /\ UNCHANGED <<view, error, loadingLearning, calls, aiInstance>>
     ELSE IF topic = ""
     THEN UNCHANGED <<view, error, loadingLearning, calls, aiInstance, showKeyModal>>
     ELSE IF getAIThrows
     THEN /\ error' = MessageOr("API_KEY_MISSING", "Failed to load learning content.")
          /\ view' = "home"
          /\ loadingLearning' = FALSE
          /\ UNCHANGED <<calls, aiInstance, showKeyModal>>
     ELSE /\ loadingLearning' = TRUE
          /\ error' = NoError
          /\ view' = viewAtLearningStart
          /\ aiInstance' = TRUE
          /\ calls' = calls \cup {TutorCall("learning", userOps + 1)}
          /\ UNCHANGED showKeyModal
  /\ UNCHANGED <<session, apiKeyMissing, loadingImport, loadingMockTest,
                 builds, inflight, odd, localKey, envKey,
                 loadingExpert, learningContent, expertResponse, panelVars>>

\* geminiService.ts:280  response.text || "Failed to generate content."
LearningTextOr(t) == IF t = "" THEN "Failed to generate content." ELSE t

\* App.tsx:321-322, 326-328: the learning request c resolved
LearningResolved(c) ==
  /\ c \in calls
  /\ c.op = "learning"
  /\ \E t \in ProviderTexts :
       /\ AdmitText(t)
       /\ learningContent' = LearningTextOr(t)
  /\ loadingLearning' = FALSE
  /\ calls' = calls \ {c}
  /\ UNCHANGED <<view, session, error, apiKeyMissing, showKeyModal,
                 loadingImport, loadingMockTest, builds, inflight, userOps,
                 credVars, loadingExpert, expertResponse, panelVars>>

\* App.tsx:323-328: the learning request c rejected
LearningRejected(c) ==
  /\ c \in calls
  /\ c.op = "learning"
  /\ \E m \in RequestFailures :
       error' = MessageOr(m, "Failed to load learning content.")
  /\ view' = "home"
  /\ loadingLearning' = FALSE
  /\ calls' = calls \ {c}
  /\ UNCHANGED <<session, apiKeyMissing, showKeyModal,
                 loadingImport, loadingMockTest, builds, inflight, userOps, odd,
                 credVars, loadingExpert, learningContent, expertResponse, panelVars>>

\* App.tsx:331-339, up to the await, with the trimmed expertQuery; the
\* buttons are on the home page (App.tsx:718) and in the expert view (App.tsx:968)
handleAskExpert(query) ==
  /\ view \in {"home", "expert"}
  /\ UserEvent
  /\ IF apiKeyMissing
     THEN /\ showKeyModal' = TRUE
          /\ UNCHANGED <<view, error, loadingExpert, calls, aiInstance>>
     ELSE IF query = ""
     THEN UNCHANGED <<view, error, loadingExpert, calls, aiInstance, showKeyModal>>
     ELSE IF getAIThrows
     THEN /\ error' = MessageOr("API_KEY_MISSING", "Failed to get expert advice.")
          /\ view' = "home"
          /\ loadingExpert' = FALSE
          /\ UNCHANGED <<calls, aiInstance, showKeyModal>>
     ELSE /\ loadingExpert' = TRUE
          /\ error' = NoError
          /\ view' = "expert"
          /\ aiInstance' = TRUE
          /\ calls' = calls \cup {TutorCall("expert", userOps + 1)}
          /\ UNCHANGED showKeyModal
  /\ UNCHANGED <<session, apiKeyMissing, loadingImport, loadingMockTest,
                 builds, inflight, odd, localKey, envKey,
                 loadingLearning, learningContent, expertResponse, panelVars>>

\* geminiService.ts:305  response.text || "Expert is currently unavailable."
ExpertTextOr(t) == IF t = "" THEN "Expert is currently unavailable." ELSE t

\* App.tsx:341-342, 346-348: the expert request c resolved
ExpertResolved(c) ==
  /\ c \in calls
  /\ c.op = "expert"
  /\ \E t \in ProviderTexts :
       /\ AdmitText(t)
       /\ expertResponse' = ExpertTextOr(t)
  /\ loadingExpert' = FALSE
  /\ calls' = calls \ {c}
  /\ UNCHANGED <<view, session, error, apiKeyMissing, showKeyModal,
                 loadingImport, loadingMockTest, builds, inflight, userOps,
                 credVars, loadingLearning, learningContent, panelVars>>

\* App.tsx:343-348: the expert request c rejected
ExpertRejected(c) ==
  /\ c \in calls
  /\ c.op = "expert"
  /\ \E m \in RequestFailures :
       error' = MessageOr(m, "Failed to get expert advice.")
  /\ view' = "home"
  /\ loadingExpert' = FALSE
  /\ calls' = calls \ {c}
  /\ UNCHANGED <<session, apiKeyMissing, showKeyModal,
                 loadingImport, loadingMockTest, builds, inflight, userOps, odd,
                 credVars, loadingLearning, learningContent, expertResponse, panelVars>>

(* ------------------------------ settings ------------------------------ *)
\* App.tsx:92-102 with the trimmed customApiKey: a non-blank key is stored
\* and the page reloaded, which ends every pending handler and mounts the
\* application again; a blank key is removed and the flag recomputed
handleSaveCustomKey(key) ==
  /\ view = "settings"
  /\ UserEvent
  /\ UNCHANGED <<envKey, odd>>
  /\ IF key # NoKey
     THEN /\ localKey' = key
          /\ apiKeyMissing' = checkApiKey(key, envKey)
          /\ view' = "home"
          /\ session' = Null
          /\ error' = NoError
          /\ aiInstance' = FALSE
          /\ showKeyModal' = FALSE
          /\ loadingImport' = FALSE
          /\ loadingMockTest' = FALSE
          /\ activeTab' = "description"
          /\ translatedSolution' = NoTranslation
          /\ translating' = FALSE
          /\ executionResult' = NoResult
          /\ running' = FALSE
          /\ loadingLearning' = FALSE
          /\ loadingExpert' = FALSE
          /\ learningContent' = ""
          /\ expertResponse' = ""
          /\ builds' = <<>>
          /\ inflight' = {}
          /\ calls' = {}
     ELSE /\ localKey' = NoKey
          /\ apiKeyMissing' = checkApiKey(NoKey, envKey)
          /\ UNCHANGED <<view, session, error, aiInstance, showKeyModal,
                         loadingImport, loadingMockTest, builds, inflight,
                         tutorVars, panelVars, calls>>

Next ==
  \/ handleStartMockTest
  \/ \E n \in 1..MaxTitles : handleImportQuestions(n)
  \/ \E b \in 1..Len(builds) : FirstResolved(b)
  \/ \E b \in 1..Len(builds) : FirstRejected(b)
  \/ \E r \in inflight : FillResolved(r[1], r[2])
  \/ \E r \in inflight : FillRejected(r[1], r[2])
  \/ \E lang \in Languages : changeLanguage(lang)
  \/ \E c \in NewCodes : updateCode(c)
  \/ nextQuestion
  \/ prevQuestion
  \/ goHome
  \/ goImport
  \/ goSettings
  \/ endInterview
  \/ dismissError
  \/ closeKeyModal

Spec == Init /\ [][Next]_vars

\* every provider call that is in flight eventually resolves or rejects
Settled ==
  \/ \E b \in 1..Len(builds) : FirstResolved(b)
  \/ \E b \in 1..Len(builds) : FirstRejected(b)
  \/ \E r \in inflight : FillResolved(r[1], r[2])
  \/ \E r \in inflight : FillRejected(r[1], r[2])

\* the builder with the navigation that lets a second build start, and
\* the assumption that every provider call settles
NextBuild ==
  \/ handleStartMockTest
  \/ \E n \in 1..MaxTitles : handleImportQuestions(n)
  \/ Settled
  \/ goHome
  \/ goImport

FairSpec == Init /\ [][NextBuild]_vars /\ WF_vars(Settled)

\* the views and the provider calls: the builder, the navigation between
\* the views, the panels of the test view, the learning and expert views and
\* the settings page
NextApp ==
  \/ \E n \in 1..MaxTitles : handleImportQuestions(n)
  \/ Settled
  \/ \E lang \in Languages : changeLanguage(lang)
  \/ \E c \in NewCodes : updateCode(c)
  \/ nextQuestion
  \/ prevQuestion
  \/ goHome
  \/ goImport
  \/ goSettings
  \/ endInterview
  \/ dismissError
  \/ closeKeyModal
  \/ \E tab \in Tabs : setActiveTab(tab)
  \/ handleRunCode
  \/ \E c \in calls : RunResolved(c)
  \/ \E c \in calls : RunRejected(c)
  \/ \E c \in calls : TranslateResolved(c)
  \/ \E c \in calls : TranslateFailed(c)
  \/ \E topic \in Topics : handleStartLearning(topic)
  \/ \E c \in calls : LearningResolved(c)
  \/ \E c \in calls : LearningRejected(c)
  \/ \E query \in Topics : handleAskExpert(query)
  \/ \E c \in calls : ExpertResolved(c)
  \/ \E c \in calls : ExpertRejected(c)
  \/ \E key \in KeyValues : handleSaveCustomKey(key)

AppSpec == Init /\ [][NextApp]_vars

\* the credential: the settings page, the actions that need the provider
\* and the builder whose requests outlive a change of the key
NextKey ==
  \/ handleStartMockTest
  \/ \E n \in 1..MaxTitles : handleImportQuestions(n)
  \/ Settled
  \/ goHome
  \/ goImport
  \/ goSettings
  \/ closeKeyModal
  \/ \E topic \in Topics : handleStartLearning(topic)
  \/ \E c \in calls : LearningResolved(c)
  \/ \E c \in calls : LearningRejected(c)
  \/ \E query \in Topics : handleAskExpert(query)
  \/ \E c \in calls : ExpertResolved(c)
  \/ \E c \in calls : ExpertRejected(c)
  \/ \E key \in KeyValues : handleSaveCustomKey(key)

KeySpec == Init /\ [][NextKey]_vars

(* ======================= properties of the builder ==================== *)
Items(s) == [k \in 1..Len(s.questions) |-> s.questions[k].item]
Outcomes(b) == SeqRange(builds[b].results)
OkItems(b) == {r[1] : r \in {x \in Outcomes(b) : x[2] = "ok"}}
FailedItems(b) == {r[1] : r \in {x \in Outcomes(b) : x[2] = "fail"}}
InFlightOf(b) == {r \in inflight : r[1] = b}
Finished(b) == builds[b].pc \in {"done", "failed"}
\* this step is the settling of item i of build b with the given outcome
SettleStep(b, i, outcome) ==
  /\ Len(builds'[b].results) = Len(builds[b].results) + 1
  /\ Last(builds'[b].results) = <<i, outcome>>

\* C1: when the only build ever started has finished after a successful
\* item 0, the session lists exactly the successfully fetched items of that
\* build, in strictly increasing request index.
C1_OrderedFill ==
  (Len(builds) = 1 /\ builds[1].pc = "done")
    => /\ HasSession
       /\ Items(S) = SetToSeq(OkItems(1))
       /\ \A k \in 1..Len(S.questions) : S.questions[k].build = 1

C1_Witness ==
  /\ Len(builds) = 1 /\ builds[1].pc = "done" /\ builds[1].total >= 3
  /\ FailedItems(1) # {}
  /\ HasSession /\ Len(S.questions) >= 2
  /\ Items(S) = SetToSeq(OkItems(1))

\* C2: a rejected item i >= 1 leaves session, view and error message as they
\* were and, when i + 1 < N, issues the request for item i + 1; a build of
\* three items of which only item 1 failed ends with items 0 and 2.
C2_FailureIsolated ==
  [][ /\ \A b \in 1..Len(builds) : \A i \in 1..(builds[b].total - 1) :
           SettleStep(b, i, "fail")
             => /\ session' = session
                /\ view' = view
                /\ error' = error
                /\ (i + 1 < builds[b].total)
                     => (<<b, i + 1>> \in inflight' /\ <<b, i + 1>> \notin inflight)
      /\ ( /\ Len(builds') = 1
           /\ builds'[1].results = << <<0, "ok">>, <<1, "fail">>, <<2, "ok">> >>
           /\ builds'[1].total = 3 )
         => (HasSession' /\ Items(S)' = <<0, 2>>)
    ]_vars

C2_Witness ==
  /\ Len(builds) = 1
  /\ builds[1].total = 3
  /\ builds[1].results = << <<0, "ok">>, <<1, "fail">>, <<2, "ok">> >>
  /\ HasSession /\ Items(S) = <<0, 2>>

\* C3: the rejection of item 0 leaves session and view as they were, sets
\* the error message, clears the build's loading flag, and the build never
\* requests any item other than item 0.
C3_FirstFailureAborts ==
  [][ /\ \A b \in 1..Len(builds) :
           SettleStep(b, 0, "fail")
             => /\ session' = session
                /\ view' = view
                /\ error' # NoError
                /\ (builds[b].kind = "mock") => ~loadingMockTest'
                /\ (builds[b].kind = "import") => ~loadingImport'
                /\ InFlightOf(b)' = {}
      /\ \A b \in 1..Len(builds') :
           (<<0, "fail">> \in SeqRange(builds'[b].results))
             => (builds'[b].requested = <<0>> /\ {r \in inflight' : r[1] = b} = {})
    ]_vars

C3_Witness ==
  \E b \in 1..Len(builds) :
    /\ builds[b].results = << <<0, "fail">> >>
    /\ builds[b].total >= 2
    /\ error # NoError
    /\ session = Null
    /\ view # "test"

\* C4: a build never has two requests in flight; it requests 0, 1, 2, ... in
\* this order, and every request but the latest has already settled.
C4_Sequential ==
  \A b \in 1..Len(builds) :
    /\ Cardinality(InFlightOf(b)) <= 1
    /\ \A k \in 1..Len(builds[b].requested) : builds[b].requested[k] = k - 1
    /\ Len(builds[b].results) >= Len(builds[b].requested) - 1
    /\ \A k \in 1..Len(builds[b].results) : builds[b].results[k][1] = k - 1

C4_Witness ==
  \E b \in 1..Len(builds) :
    /\ Len(builds[b].requested) >= 3
    /\ InFlightOf(b) = {<<b, 2>>}

\* C5: under the assumption that every provider call settles, every build
\* that was started finishes, and no build requests an index twice.
C5_Terminates ==
  /\ \A b \in 1..MaxFetches : []<>(Len(builds) < b \/ Finished(b))
  /\ [](\A b \in 1..Len(builds) :
          \A j, k \in 1..Len(builds[b].requested) :
            builds[b].requested[j] = builds[b].requested[k] => j = k)

C5_Witness ==
  \E b \in 1..Len(builds) :
    /\ builds[b].pc = "done"
    /\ FailedItems(b) # {}
    /\ HasSession /\ S.id = b
    /\ Len(S.questions) < builds[b].total

(* ===================== properties of the session ====================== *)
\* C6: with a session present, every question has an entry in userCodes
\* under its identifier, holding a buffer for each of the four languages.
C6_AllBuffers ==
  HasSession =>
    \A k \in 1..Len(S.questions) :
      /\ S.questions[k].id \in DOMAIN S.userCodes
      /\ DOMAIN S.userCodes[S.questions[k].id] = Languages

\* C7: with a session present, currentQuestionIndex is an index of questions.
C7_IndexValid ==
  HasSession =>
    (0 <= S.currentQuestionIndex /\ S.currentQuestionIndex < Len(S.questions))

C7_Witness ==
  /\ HasSession
  /\ Len(S.questions) >= 2
  /\ S.currentQuestionIndex = Len(S.questions) - 1
  /\ userOps >= 2

\* C8: while the same session stays active, every step keeps the questions
\* already in the list, in their places.
C8_AppendOnly ==
  [][ (HasSession /\ HasSession' /\ S'.id = S.id)
        => IsPrefix(S.questions, S'.questions) ]_vars

C8_Witness ==
  /\ HasSession
  /\ Len(S.questions) >= 3
  /\ S.currentQuestionIndex = 1
  /\ \E l \in DOMAIN S.userCodes[S.questions[2].id] :
       S.userCodes[S.questions[2].id][l] = "user"

\* C9: a step from the test view or the results view to home leaves no session.
C9_HomeDiscards ==
  [][ (view \in {"test", "results"} /\ view' = "home") => session' = Null ]_vars

\* C10: once the user is back at home, the settling of a request of a build
\* that is still filling changes nothing the interface shows.
C10_LateCompletionNoop ==
  [][ \A b \in 1..Len(builds) : \A i \in 1..(builds[b].total - 1) :
        (view = "home" /\ (SettleStep(b, i, "ok") \/ SettleStep(b, i, "fail")))
          => (session' = session /\ view' = view /\ error' = error) ]_vars

(* ===================== properties of the user events ================== *)
\* what the application holds: every variable but the counters of the model
ProgramState ==
  <<view, session, error, apiKeyMissing, showKeyModal, loadingImport,
    loadingMockTest, inflight, localKey, envKey, aiInstance, activeTab,
    translatedSolution, translating, executionResult, running,
    loadingLearning, loadingExpert, learningContent, expertResponse, calls>>

\* C11: nextQuestion at the last index and prevQuestion at index 0 change
\* nothing the application holds; away from the boundary they move the
\* index by exactly one.
C11_BoundaryNoop ==
  [][ /\ (nextQuestion /\ S.currentQuestionIndex >= Len(S.questions) - 1)
           => UNCHANGED ProgramState
      /\ (prevQuestion /\ S.currentQuestionIndex <= 0)
           => UNCHANGED ProgramState
      /\ (nextQuestion /\ S.currentQuestionIndex < Len(S.questions) - 1)
           => (HasSession' /\ S'.currentQuestionIndex = S.currentQuestionIndex + 1)
      /\ (prevQuestion /\ S.currentQuestionIndex > 0)
           => (HasSession' /\ S'.currentQuestionIndex = S.currentQuestionIndex - 1)
    ]_vars

C11_Witness ==
  /\ view = "test"
  /\ HasSession
  /\ Len(S.questions) >= 3
  /\ S.currentQuestionIndex = Len(S.questions) - 1

\* C12: changeLanguage sets the language of the session and leaves every
\* buffer of userCodes, the list of questions and the index as they were.
C12_LanguageOnly ==
  [][ \A lang \in Languages :
        changeLanguage(lang)
          => /\ HasSession'
             /\ S'.language = lang
             /\ S'.userCodes = S.userCodes
             /\ S'.questions = S.questions
             /\ S'.currentQuestionIndex = S.currentQuestionIndex ]_vars

C12_Witness ==
  /\ HasSession
  /\ S.language = "cpp"
  /\ \E k \in DOMAIN S.userCodes :
       "java" \in DOMAIN S.userCodes[k] /\ S.userCodes[k]["java"] = "user"

\* C13: after updateCode(newCode), for any string newCode, the buffer of the
\* current question in the current language is newCode and every other
\* buffer, the questions, the index and the language are as before.
C13_WritesAnyString ==
  [][ \A c \in NewCodes :
        updateCode(c)
          => LET qId == CurrentQuestion(S).id IN
             /\ HasSession'
             /\ S.language \in DOMAIN S'.userCodes[qId]
             /\ S'.userCodes[qId][S.language] = c
             /\ \A k \in DOMAIN S.userCodes : \A l \in DOMAIN S.userCodes[k] :
                  (<<k, l>> # <<qId, S.language>>)
                    => S'.userCodes[k][l] = S.userCodes[k][l]
             /\ S'.questions = S.questions
             /\ S'.currentQuestionIndex = S.currentQuestionIndex
             /\ S'.language = S.language ]_vars

\* C14: a write that updateCode has just made, made once more, leaves the
\* session as the first write left it.
C14_Idempotent ==
  [][ \A c \in NewCodes :
        (c # "" /\ updateCode(c)) => (HasSession' /\ withCode(S', c) = S') ]_vars

C14_Witness ==
  /\ view = "test"
  /\ HasSession
  /\ S.language \in DOMAIN S.userCodes[CurrentQuestion(S).id]
  /\ S.userCodes[CurrentQuestion(S).id][S.language] = "user"
  /\ userOps >= 3

(* ======================= properties of the views ====================== *)
\* C15: a step that enters the test view is the settling of a successful
\* item 0 of a build, installs a session that holds exactly that item, and
\* is not a user event.
C15_TestOnlyByBuild ==
  [][ (view # "test" /\ view' = "test")
        => /\ userOps' = userOps
           /\ \E b \in 1..Len(builds) :
                /\ SettleStep(b, 0, "ok")
                /\ HasSession'
                /\ session' # session
                /\ S'.id = b
                /\ Len(S'.questions) = 1
                /\ QKey(S'.questions[1]) = <<b, 0>>
                /\ S'.currentQuestionIndex = 0 ]_vars

C15_Witness ==
  /\ view = "test"
  /\ loadingLearning
  /\ HasSession
  /\ Len(S.questions) = 1

\* C16: the step that issues a learning (expert) request shows the learning
\* (expert) view with its loading flag set; the rejection of the request
\* shows home with the error message set and stores no content; its
\* resolution leaves the view alone and stores the content.
C16_OptimisticView ==
  [][ /\ \A c \in calls' \ calls :
           /\ (c.op = "learning") => (view' = "learning" /\ loadingLearning')
           /\ (c.op = "expert") => (view' = "expert" /\ loadingExpert')
      /\ \A c \in calls :
           /\ LearningRejected(c)
                => (view' = "home" /\ error' # NoError /\ learningContent' = learningContent)
           /\ ExpertRejected(c)
                => (view' = "home" /\ error' # NoError /\ expertResponse' = expertResponse)
           /\ LearningResolved(c)
                => (view' = view /\ learningContent' \in {LearningTextOr(t) : t \in ProviderTexts})
           /\ ExpertResolved(c)
                => (view' = view /\ expertResponse' \in {ExpertTextOr(t) : t \in ProviderTexts})
    ]_vars

C16_Witness ==
  /\ learningContent = "text"
  /\ expertResponse = ""
  /\ view = "home"
  /\ error = "request failed"
  /\ ~loadingLearning
  /\ ~loadingExpert

\* C17: while a request of an action is outstanding, the loading flag of
\* that action is set.
C17_FlagWhileOutstanding ==
  /\ \A c \in calls :
       /\ (c.op = "learning") => loadingLearning
       /\ (c.op = "expert") => loadingExpert
       /\ (c.op = "run") => running
       /\ (c.op = "translate") => translating
  /\ \A b \in 1..Len(builds) :
       (<<b, 0>> \in inflight)
         => IF builds[b].kind = "mock" THEN loadingMockTest ELSE loadingImport

\* what a failed call must not touch
Committed ==
  <<session, executionResult, translatedSolution, learningContent, expertResponse>>

NoCredential == localKey = NoKey /\ (envKey = NoKey \/ envKey = Sentinel)

\* C19: while no credential is present, no step issues a provider request.
C19_NoCredentialNoRequest ==
  [][ NoCredential => (inflight' \subseteq inflight /\ calls' \subseteq calls) ]_vars

\* C20: while apiKeyMissing is set, no step issues a provider request, and
\* starting a test, an import, a run, a learning module or an expert
\* question only opens the key prompt, leaving session and view alone.
C20_MissingFlagNoRequest ==
  [][ apiKeyMissing
        => /\ inflight' \subseteq inflight
           /\ calls' \subseteq calls
           /\ ( \/ handleStartMockTest
                \/ \E n \in 1..MaxTitles : handleImportQuestions(n)
                \/ handleRunCode
                \/ \E topic \in Topics : handleStartLearning(topic)
                \/ \E query \in Topics : handleAskExpert(query) )
              => (showKeyModal' /\ session' = session /\ view' = view) ]_vars

(* ===================== properties of the provider ===================== *)
\* what translateSolution, getLearningContent and getExpertAdvice return
\* when the request failed or the provider answered without text
StandInTexts ==
  { TranslationOr(""), "Failed to translate solution.",
    LearningTextOr(""), ExpertTextOr("") }

\* C21: no provider operation hands a failed call or an empty payload to
\* its caller as a normal return value: nothing a handler received from the
\* provider and stored is the stand-in for a failed or empty answer.
C21_FailureNeverReturned ==
  /\ translatedSolution # NoTranslation => translatedSolution[1].text \notin StandInTexts
  /\ learningContent \notin StandInTexts
  /\ expertResponse \notin StandInTexts

(* ===================== properties of the translation ================== *)
\* C22: changeLanguage leaves no cached translation, and it issues one
\* translation request, for the new language and the current question,
\* exactly when the solution tab is the active tab.
C22_ClearAndRequest ==
  [][ \A lang \in Languages :
        changeLanguage(lang)
          => /\ translatedSolution' = NoTranslation
             /\ Cardinality(calls' \ calls) <= 1
             /\ calls \subseteq calls'
             /\ (activeTab = "solution")
                  <=> (\E c \in calls' \ calls :
                         /\ c.op = "translate"
                         /\ c.lang = lang
                         /\ c.question = QKey(CurrentQuestion(S))) ]_vars

C22_Witness ==
  /\ view = "test"
  /\ HasSession
  /\ activeTab = "solution"
  /\ translatedSolution = NoTranslation
  /\ \E c1, c2 \in calls :
       /\ c1.op = "translate" /\ c2.op = "translate"
       /\ c1.lang = DefaultLanguage
       /\ c2.lang # DefaultLanguage
       /\ c2.lang = S.language

\* C23: a cached translation is the translation of the current question
\* into the current language of the session.
C23_TranslationCurrent ==
  translatedSolution # NoTranslation
    => /\ HasSession
       /\ translatedSolution[1].question = QKey(CurrentQuestion(S))
       /\ translatedSolution[1].lang = S.language

(* ===================== properties of the run panel ==================== *)
\* C24: a failed run ends with an execution result of status Error and the
\* running flag cleared, and leaves session and view as they were; a run
\* that is started clears the execution result and sets the running flag.
C24_RunFailure ==
  [][ /\ \A c \in calls :
           RunRejected(c)
             => /\ executionResult' # NoResult
                /\ executionResult'[1].status = "Error"
                /\ ~running'
                /\ session' = session
                /\ view' = view
      /\ (handleRunCode /\ calls' # calls)
           => (executionResult' = NoResult /\ running')
    ]_vars

C24_Witness ==
  /\ view = "test"
  /\ HasSession
  /\ executionResult # NoResult
  /\ executionResult[1].status = "Error"
  /\ executionResult[1].question = QKey(CurrentQuestion(S))
  /\ ~running
  /\ \A c \in calls : c.op # "run"

(* ===================== properties of two builds ======================= *)
\* C25: every question of a session was fetched by the build that created
\* the session.
C25_OwnQuestions ==
  HasSession => \A k \in 1..Len(S.questions) : S.questions[k].build = S.id

(* ===================== properties of the append ======================= *)
\* C26: the append of a fetched question leaves every entry that userCodes
\* already had as it was.
C26_AppendKeepsBuffers ==
  [][ \A r \in inflight :
        (FillResolved(r[1], r[2]) /\ HasSession)
          => \A k \in DOMAIN S.userCodes : S'.userCodes[k] = S.userCodes[k] ]_vars

\* C27: an execution result that is present was produced by a run of the
\* question that is displayed.
C27_ResultOfCurrent ==
  executionResult # NoResult
    => /\ HasSession
       /\ executionResult[1].question = QKey(CurrentQuestion(S))

(* ===================== properties of the views ======================== *)
\* C28: in the test view and in the results view there is a session with at
\* least one question, its index designates a question, and userCodes has
\* the entry of that question, so that the reads of renderCoding
\* (questions[index], userCodes[id][language]) are defined.
C28_SessionInTest ==
  view \in {"test", "results"}
    => /\ HasSession
       /\ Len(S.questions) >= 1
       /\ S.currentQuestionIndex \in 0..(Len(S.questions) - 1)
       /\ CurrentQuestion(S).id \in DOMAIN S.userCodes

C28_Witness ==
  /\ view = "results"
  /\ HasSession
  /\ Len(S.questions) >= 2
  /\ S.currentQuestionIndex = Len(S.questions) - 1
  /\ inflight # {}

\* C29: a failed learning or expert request changes the view only when the
\* view is learning or expert at that moment.
C29_FailureKeepsOtherViews ==
  [][ \A c \in calls :
        (LearningRejected(c) \/ ExpertRejected(c))
          => (view \notin {"learning", "expert"} => view' = view) ]_vars

(* ================ properties of the credential checks ================= *)
\* C30: before the first provider call, apiKeyMissing is set exactly when
\* getAI would throw the missing-credential error.
C30_ChecksAgree ==
  ~aiInstance => (apiKeyMissing <=> getAIThrows)

====
